---- MODULE Spec2Model ----
(***************************************************************************)
(* Model of pyfigure.py: the summary-figure builders of the rainfall       *)
(* dashboard.  A summary table is a pandas DataFrame with two-level        *)
(* columns (station, metric) over a time index; a builder call turns it    *)
(* into a figure record, a placeholder or an exception.                    *)
(***************************************************************************)
EXTENDS Integers, Sequences, FiniteSets, TLC

VARIABLES summary, summary_all, trendline, call, before, result

vars == <<summary, summary_all, trendline, call, before, result>>

(***************************************************************************)
(* Python values: an optional argument is None or a value.                 *)
(***************************************************************************)
None == <<>>

Some(v) == <<v>>

IsNone(o) == o = <<>>

Get(o) == o[1]

(***************************************************************************)
(* Bounds of the model.                                                    *)
(***************************************************************************)
MaxStations == 3

MaxSmallRows == 2

MaxOver == 1

NumThemeColors == 2

MaxTplLen == 2

(***************************************************************************)
(* Module constants of pyfigure.py.                                        *)
(***************************************************************************)
THRESHOLD_SUMMARY == (367 * 8) \div 2

THRESHOLD_XAXES == 12 * 2 * 5

(***************************************************************************)
(* The theme provider (pytemplate.hktemplate.layout.colorway): an ordered, *)
(* non-empty colour list.                                                  *)
(***************************************************************************)
ThemePalette == <<"c0", "c1", "c2", "c3", "c4", "c5">>

colorway == [i \in 1..NumThemeColors |-> ThemePalette[i]]

(***************************************************************************)
(* Sequence helpers.                                                       *)
(***************************************************************************)
RECURSIVE Flatten(_)
Flatten(ss) == IF ss = <<>> THEN <<>> ELSE Head(ss) \o Flatten(Tail(ss))

Range(s) == {s[i] : i \in 1..Len(s)}

Contains(s, e) == \E i \in 1..Len(s) : s[i] = e

SeqMax(s) == CHOOSE m \in Range(s) : \A v \in Range(s) : v <= m

\* list * k
Repeat(s, k) == [i \in 1..(Len(s) * k) |-> s[((i - 1) % Len(s)) + 1]]

\* seq[::2]
Stride2(s) == [i \in 1..((Len(s) + 1) \div 2) |-> s[2 * i - 1]]

\* np.arange(n)
arange(n) == [i \in 1..n |-> i - 1]

\* list(OrderedDict.fromkeys(s)): first-seen order, deduplicated
RECURSIVE OrderedDictKeys(_)
OrderedDictKeys(s) ==
    IF s = <<>> THEN <<>>
    ELSE LET init == SubSeq(s, 1, Len(s) - 1)
             last == s[Len(s)]
         IN  IF Contains(init, last) THEN OrderedDictKeys(init)
             ELSE Append(OrderedDictKeys(init), last)

(***************************************************************************)
(* str.lower(): a string is a sequence of one-character strings.           *)
(***************************************************************************)
UpperCase == <<"A", "B", "C", "D", "E", "F", "G", "H", "I", "J", "K", "L", "M",
               "N", "O", "P", "Q", "R", "S", "T", "U", "V", "W", "X", "Y", "Z">>

LowerCase == <<"a", "b", "c", "d", "e", "f", "g", "h", "i", "j", "k", "l", "m",
               "n", "o", "p", "q", "r", "s", "t", "u", "v", "w", "x", "y", "z">>

lower_char(c) ==
    IF \E i \in 1..Len(UpperCase) : UpperCase[i] = c
    THEN LowerCase[CHOOSE i \in 1..Len(UpperCase) : UpperCase[i] = c]
    ELSE c

lower(s) == [i \in 1..Len(s) |-> lower_char(s[i])]

STR_yearly == <<"y", "e", "a", "r", "l", "y">>

STR_monthly == <<"m", "o", "n", "t", "h", "l", "y">>

(***************************************************************************)
(* The summary table (pandas DataFrame with MultiIndex columns).           *)
(*   columns : the (station, metric) labels in column order                *)
(*   levels0 : summary.columns.levels[0]                                   *)
(*   index   : the time index (one timestamp per row)                      *)
(*   values  : values[c][r], the cell of column c at row r                 *)
(***************************************************************************)
StationPool == <<"A", "B", "C", "D", "E">>

StationRank(s) == CHOOSE i \in 1..Len(StationPool) : StationPool[i] = s

size(t) == Len(t.columns) * Len(t.index)

index_size(t) == Len(t.index)

has_column(t, key) == Contains(t.columns, key)

column_loc(t, key) == CHOOSE c \in 1..Len(t.columns) : t.columns[c] = key

\* summary[(station, metric)]
series(t, key) == t.values[column_loc(t, key)]

\* the stations in sorted instead of first-seen order
stations_sorted(t) ==
    LET names == {t.columns[c][1] : c \in 1..Len(t.columns)}
    IN  [i \in 1..Cardinality(names) |->
           CHOOSE s \in names :
               Cardinality({u \in names : StationRank(u) < StationRank(s)}) = i - 1]

\* [station_name for station_name, _ in summary.columns.to_list()], deduplicated
stations_of(t) ==
    OrderedDictKeys([c \in 1..Len(t.columns) |-> t.columns[c][1]])

\* summary[station].items(): the station's columns, in column order
station_items(t, station) ==
    SelectSeq([c \in 1..Len(t.columns) |-> c],
              LAMBDA c : t.columns[c][1] = station)

\* summary[key] = col : overwrite in place, or append a new last column
setitem(t, key, col) ==
    IF has_column(t, key)
    THEN [t EXCEPT !.values[column_loc(t, key)] = col]
    ELSE [t EXCEPT !.columns = Append(@, key), !.values = Append(@, col)]

(***************************************************************************)
(* Results of a call: a dcc.Graph wrapping a figure, or an exception.      *)
(***************************************************************************)
Raised(exc) == [status |-> "raised", exc |-> exc]

\* dcc.Graph(figure=fig) / dcc.Graph(figure=fig, config={"staticPlot": True})
Graph(fig, staticPlot) ==
    [status |-> "returned", figure |-> fig, staticPlot |-> staticPlot]

generate_empty_figure(text) ==
    [kind |-> "empty",
     data |-> <<[x |-> <<>>, y |-> <<>>]>>,
     annotation |-> <<"<i>", text, "</i>">>]

\* [generate_watermark(n) for n in range(2, rows + 1)]: the subplot numbers
watermarks(rows) == [i \in 1..(rows - 1) |-> i + 1]

(***************************************************************************)
(* Oversized-dataset guard (the if at the head of both summary builders).  *)
(* Python evaluates "and" left to right: period.lower() is only reached    *)
(* when a threshold is exceeded.                                           *)
(***************************************************************************)
dataset_guard_no_yearly(t, period) ==
    IF (size(t) > THRESHOLD_SUMMARY) \/ (index_size(t) > THRESHOLD_XAXES)
    THEN IF IsNone(period) THEN "AttributeError" ELSE "placeholder"
    ELSE "render"

dataset_guard(t, period) ==
    IF (size(t) > THRESHOLD_SUMMARY) \/ (index_size(t) > THRESHOLD_XAXES)
    THEN IF IsNone(period) THEN "AttributeError"
         ELSE IF lower(Get(period)) # STR_yearly THEN "placeholder"
              ELSE "render"
    ELSE "render"

(***************************************************************************)
(* Axis tick planner.  index.strftime(fmt) is kept as the pair of the      *)
(* format and the timestamp it is applied to.                              *)
(***************************************************************************)
strftime(index, fmt) == [i \in 1..Len(index) |-> [fmt |-> fmt, at |-> index[i]]]

\* only reached with a string period (see tick_raises)
tick_format(period) ==
    IF lower(Get(period)) = STR_monthly THEN "%B %Y"
    ELSE IF lower(Get(period)) = STR_yearly THEN "%Y"
    ELSE "%d %b %Y"

\* period.lower() on None
tick_raises(period) == IsNone(period)

tick_plan_floor(index, period) ==
    LET ticktext == strftime(index, tick_format(period))
        n == Len(index)
    IN  IF n <= THRESHOLD_XAXES
        THEN [ticktext |-> ticktext, tickvals |-> arange(n)]
        ELSE [ticktext |-> Stride2(ticktext),
              tickvals |-> [i \in 1..(n \div 2) |-> 2 * i - 2]]

tick_plan(index, period) ==
    LET ticktext == strftime(index, tick_format(period))
    IN  IF Len(index) <= THRESHOLD_XAXES
        THEN [ticktext |-> ticktext, tickvals |-> arange(Len(index))]
        ELSE [ticktext |-> Stride2(ticktext),
              tickvals |-> Stride2(arange(Len(index)))]

(***************************************************************************)
(* Traces and the ordered data_dict (defaultdict(list)).                   *)
(***************************************************************************)
dict_append(dd, key, item) ==
    IF \E k \in 1..Len(dd) : dd[k].key = key
    THEN LET k == CHOOSE k \in 1..Len(dd) : dd[k].key = key
         IN  [dd EXCEPT ![k].items = Append(@, item)]
    ELSE Append(dd, [key |-> key, items |-> <<item>>])

\* the (station, column) pairs in the order the two nested loops visit them
visits(t) ==
    LET st == stations_of(t)
    IN  Flatten([i \in 1..Len(st) |->
                   LET cs == station_items(t, st[i])
                   IN  [j \in 1..Len(cs) |-> <<st[i], cs[j]>>]])

\* go.Bar(...) of the grouped builder
grouped_bar(t, station, c) ==
    [x |-> arange(index_size(t)),
     y |-> t.values[c],
     name |-> <<station, " (", t.columns[c][2], ")">>,
     legendgroup |-> station,
     legendgrouptitle_text |-> station,
     showlegend |-> "",
     hoverinfo |-> "",
     legendrank |-> 1000,
     marker_color |-> "",
     row |-> 0]

RECURSIVE group_by_metric(_, _, _, _)
group_by_metric(t, ufunc_cols, vs, dd) ==
    IF vs = <<>> THEN dd
    ELSE LET station == Head(vs)[1]
             c == Head(vs)[2]
             ufcol == t.columns[c][2]
         IN  group_by_metric(t, ufunc_cols, Tail(vs),
                 IF Contains(ufunc_cols, ufcol)
                 THEN dict_append(dd, ufcol, grouped_bar(t, station, c))
                 ELSE dd)

\* for counter, (key, data) in enumerate(data_dict.items(), 1):
\*     fig.add_traces(data, rows=counter, cols=cols)
\* plotly raises when counter is no row of the grid
add_traces_raises(dd, rows) == Len(dd) > rows

add_traces(dd) ==
    Flatten([k \in 1..Len(dd) |->
               [j \in 1..Len(dd[k].items) |-> [dd[k].items[j] EXCEPT !.row = k]]])

(***************************************************************************)
(* Colour assignment of the grouped and the bubble builder:                *)
(*   n_split = len(fig.data) // divisor; colors = colorway[:n_split] or    *)
(*   islice(cycle(colorway), n_split); zip(fig.data, colors * divisor)     *)
(***************************************************************************)
islice_cycle(cw, n) == [i \in 1..n |-> cw[((i - 1) % Len(cw)) + 1]]

zip_colors(data, colors) ==
    [i \in 1..Len(data) |->
        IF i <= Len(colors) THEN [data[i] EXCEPT !.marker_color = colors[i]]
        ELSE data[i]]

assign_colors_no_repeat(data, divisor) ==
    LET n_split == Len(data) \div divisor
        colors == IF n_split < Len(colorway) THEN SubSeq(colorway, 1, n_split)
                  ELSE islice_cycle(colorway, n_split)
    IN  zip_colors(data, colors)

assign_colors(data, divisor) ==
    LET n_split == Len(data) \div divisor
        colors == IF n_split < Len(colorway) THEN SubSeq(colorway, 1, n_split)
                  ELSE islice_cycle(colorway, n_split)
    IN  zip_colors(data, Repeat(colors, divisor))

(***************************************************************************)
(* generate_summary_maximum_sum(summary, ufunc_cols, rows, ..., period)    *)
(* The value is the pair of what the call returns or raises and the        *)
(* caller's table after the call.                                          *)
(***************************************************************************)
generate_summary_maximum_sum(t, ufunc_arg, rows_arg, period) ==
    LET ufunc_cols == IF IsNone(ufunc_arg) THEN <<"max", "sum">> ELSE Get(ufunc_arg)
        rows == IF IsNone(rows_arg) THEN 2 ELSE Get(rows_arg)
        subplot_titles == ufunc_cols
        guard == dataset_guard(t, period)
        data_dict == group_by_metric(t, ufunc_cols, visits(t), <<>>)
        ticks == tick_plan(t.index, period)
        fig == [kind |-> "subplots",
                rows |-> rows,
                subplot_titles |-> subplot_titles,
                images |-> watermarks(rows),
                barmode |-> "group",
                data |-> assign_colors(add_traces(data_dict), 2),
                ticktext |-> ticks.ticktext,
                tickvals |-> ticks.tickvals,
                yrange |-> None]
    IN  [summary |-> t,
         out |-> IF guard = "AttributeError" THEN Raised("AttributeError")
                 ELSE IF guard = "placeholder"
                      THEN Graph(generate_empty_figure("dataset above threshold"), TRUE)
                 ELSE IF add_traces_raises(data_dict, rows) THEN Raised("Exception")
                 ELSE IF tick_raises(period) THEN Raised("AttributeError")
                 ELSE Graph(fig, FALSE)]

(***************************************************************************)
(* generate_summary_rain_dry(summary, ufunc_cols, rows, ..., period)       *)
(***************************************************************************)
\* the n_left loop: for station in summary.columns.levels[0]:
\*     summary[(station, "n_left")] = days.max() - n_rain - n_dry
\* A missing column raises KeyError; the columns set before it stay set.
n_left_row_days(t, station) ==
    LET days == series(t, <<station, "days">>)
        n_rain == series(t, <<station, "n_rain">>)
        n_dry == series(t, <<station, "n_dry">>)
    IN  [r \in 1..index_size(t) |-> days[r] - n_rain[r] - n_dry[r]]

n_left(t, station) ==
    LET days == series(t, <<station, "days">>)
        n_rain == series(t, <<station, "n_rain">>)
        n_dry == series(t, <<station, "n_dry">>)
    IN  [r \in 1..index_size(t) |-> SeqMax(days) - n_rain[r] - n_dry[r]]

RECURSIVE add_n_left(_, _)
add_n_left(t, lv) ==
    IF lv = <<>> THEN [ok |-> TRUE, summary |-> t]
    ELSE LET station == Head(lv)
         IN  IF /\ has_column(t, <<station, "days">>)
                /\ has_column(t, <<station, "n_rain">>)
                /\ has_column(t, <<station, "n_dry">>)
             THEN add_n_left(setitem(t, <<station, "n_left">>, n_left(t, station)),
                             Tail(lv))
             ELSE [ok |-> FALSE, summary |-> t]

\* go.Bar(...) of a requested metric in the stacked builder
stacked_bar(t, station, c) ==
    [x |-> arange(index_size(t)),
     y |-> t.values[c],
     name |-> <<station, " (", t.columns[c][2], ")">>,
     legendgroup |-> station,
     legendgrouptitle_text |-> station,
     showlegend |-> "",
     hoverinfo |-> "",
     hovertemplate |-> <<station, "<br>", t.columns[c][2], ": %{y}<extra></extra>">>,
     legendrank |-> 1000,
     marker_line_width |-> 0,
     marker_color |-> "",
     row |-> 0]

\* go.Bar(...) of the n_left filler
border_bar(t, station, c) ==
    [x |-> arange(index_size(t)),
     y |-> t.values[c],
     name |-> <<"<i>", station, " (border)</i>">>,
     legendgroup |-> station,
     legendgrouptitle_text |-> station,
     showlegend |-> "True",
     hoverinfo |-> "skip",
     hovertemplate |-> <<>>,
     legendrank |-> 500,
     marker_line_width |-> 0,
     marker_color |-> "",
     row |-> 0]

RECURSIVE group_by_station(_, _, _, _)
group_by_station(t, ufunc_cols, vs, dd) ==
    IF vs = <<>> THEN dd
    ELSE LET station == Head(vs)[1]
             c == Head(vs)[2]
             ufcol == t.columns[c][2]
             dd1 == IF Contains(ufunc_cols, ufcol)
                    THEN dict_append(dd, station, stacked_bar(t, station, c))
                    ELSE dd
             dd2 == IF ufcol = "n_left"
                    THEN dict_append(dd1, station, border_bar(t, station, c))
                    ELSE dd1
         IN  group_by_station(t, ufunc_cols, Tail(vs), dd2)

\* color_list = list(colorway[:2]) + ["DarkGray"]
color_list == SubSeq(colorway, 1, IF Len(colorway) < 2 THEN Len(colorway) ELSE 2)
                  \o <<"DarkGray">>

\* for data, color in zip(fig.data, color_list * rows)
stacked_colors(data, rows) == zip_colors(data, Repeat(color_list, rows))

generate_summary_rain_dry(t, ufunc_arg, rows_arg, period) ==
    LET rows == IF IsNone(rows_arg) THEN Len(t.levels0) ELSE Get(rows_arg)
        ufunc_cols == IF IsNone(ufunc_arg) THEN <<"n_rain", "n_dry">>
                      ELSE Get(ufunc_arg)
        subplot_titles == t.levels0
        guard == dataset_guard(t, period)
        filled == add_n_left(t, t.levels0)
        t1 == filled.summary
        data_dict == group_by_station(t1, ufunc_cols, visits(t1), <<>>)
        ticks == tick_plan(t1.index, period)
        \* "station" is what the trace loop left in it: the last station
        station == stations_of(t1)[Len(stations_of(t1))]
        fig == [kind |-> "subplots",
                rows |-> rows,
                subplot_titles |-> subplot_titles,
                images |-> watermarks(rows),
                barmode |-> "stack",
                data |-> stacked_colors(add_traces(data_dict), rows),
                ticktext |-> ticks.ticktext,
                tickvals |-> ticks.tickvals,
                yrange |-> Some(<<0, SeqMax(series(t1, <<station, "days">>))>>)]
    IN  IF guard = "AttributeError"
        THEN [summary |-> t, out |-> Raised("AttributeError")]
        ELSE IF guard = "placeholder"
        THEN [summary |-> t,
              out |-> Graph(generate_empty_figure("dataset above threshold"), TRUE)]
        ELSE IF ~filled.ok
        THEN [summary |-> t1, out |-> Raised("KeyError")]
        ELSE IF add_traces_raises(data_dict, rows)
        THEN [summary |-> t1, out |-> Raised("Exception")]
        ELSE IF tick_raises(period)
        THEN [summary |-> t1, out |-> Raised("AttributeError")]
        ELSE [summary |-> t1, out |-> Graph(fig, FALSE)]

(***************************************************************************)
(* generate_summary_maximum_date(summary_all, ...): the bubble builder.    *)
(* Of a trace only what the colour assignment reads is kept: its period    *)
(* (name), its station (legendgroup) and its row.                          *)
(***************************************************************************)
periods_default == <<"biweekly", "monthly", "yearly">>

\* all_df columns: (period, station) in the order the frames are appended
all_df_columns(tables) ==
    Flatten([k \in 1..(IF Len(tables) < Len(periods_default) THEN Len(tables)
                       ELSE Len(periods_default)) |->
               LET st == stations_of(tables[k])
               IN  [j \in 1..Len(st) |-> <<periods_default[k], st[j]>>]])

bubble_scatter(period, station) ==
    [name |-> period,
     legendgroup |-> station,
     legendgrouptitle_text |-> station,
     marker_color |-> "",
     row |-> 0]

\* all_df.columns.levels[0]: the periods in sorted order, which is the order
\* of the default list
RECURSIVE group_by_period(_, _, _)
group_by_period(cols, ps, dd) ==
    IF ps = <<>> THEN dd
    ELSE LET mine == SelectSeq(cols, LAMBDA pc : pc[1] = Head(ps))
             items == [j \in 1..Len(mine) |-> bubble_scatter(mine[j][1], mine[j][2])]
         IN  group_by_period(cols, Tail(ps),
                 IF items = <<>> THEN dd
                 ELSE Append(dd, [key |-> Head(ps), items |-> items]))

generate_summary_maximum_date(tables) ==
    LET rows == 3
        data_dict == group_by_period(all_df_columns(tables), periods_default, <<>>)
        fig == [kind |-> "bubble",
                rows |-> rows,
                subplot_titles |-> <<"Biweekly", "Monthly", "Yearly">>,
                images |-> watermarks(rows),
                data |-> assign_colors(add_traces(data_dict), 3)]
    IN  IF add_traces_raises(data_dict, rows) THEN Raised("Exception")
        ELSE Graph(fig, FALSE)

(***************************************************************************)
(* Trendline annotation of generate_cumulative_sum and                     *)
(* generate_scatter_with_trendline.  A hover template is a sequence of     *)
(* symbols: "<br>", "R", "=", the characters of [0-9.] ("9", "."), any     *)
(* other character ("x"), and the tail "<extra></extra>".                  *)
(***************************************************************************)
BR == "<br>"

EXTRA == "<extra></extra>"

SENTINEL == <<EXTRA>>

DigitSyms == {"9", "."}

\* re.compile("<br>(.+)<br>R.+=([0-9.]+)<br>") matched at (i, j, k, l):
\* s[i] = <br>, group 1 = s[i+1..j-1], s[j] = <br>, s[j+1] = R, .+ = s[j+2..k-1],
\* s[k] = "=", group 2 = s[k+1..l-1], s[l] = <br>
re_match_at(s, i, j, k, l) ==
    /\ s[i] = BR
    /\ j > i + 1
    /\ s[j] = BR
    /\ s[j + 1] = "R"
    /\ k > j + 2
    /\ s[k] = "="
    /\ l > k + 1
    /\ \A d \in (k + 1)..(l - 1) : s[d] \in DigitSyms
    /\ s[l] = BR

re_matches(s) ==
    {m \in (1..Len(s)) \X (1..Len(s)) \X (1..Len(s)) \X (1..Len(s)) :
        m[2] < Len(s) /\ re_match_at(s, m[1], m[2], m[3], m[4])}

\* the first match: leftmost start, then each greedy quantifier as long as
\* the rest still matches
re_first(s) ==
    CHOOSE m \in re_matches(s) :
        \A o \in re_matches(s) :
            \/ m[1] < o[1]
            \/ m[1] = o[1] /\ m[2] > o[2]
            \/ m[1] = o[1] /\ m[2] = o[2] /\ m[3] > o[3]
            \/ m[1] = o[1] /\ m[2] = o[2] /\ m[3] = o[3] /\ m[4] >= o[4]

\* px.scatter(..., trendline="ols").data[1] after the annotation, or the
\* IndexError of re_pattern.findall(...)[0] on an empty list
annotate_trendline(tr, xline) ==
    IF tr.hovertemplate # SENTINEL
    THEN IF re_matches(tr.hovertemplate) = {} THEN Raised("IndexError")
         ELSE LET m == re_first(tr.hovertemplate)
                  equation == SubSeq(tr.hovertemplate, m[1] + 1, m[2] - 1)
                  r2 == SubSeq(tr.hovertemplate, m[3] + 1, m[4] - 1)
                  new == <<"<b>OLS trendline</b><br>", "<i>">> \o equation
                           \o <<"</i><br>", "<i>R<sup>2</sup>: ">> \o r2
                           \o <<"</i><br>", "<b>%{y} mm</b> (trend)<br>", xline, EXTRA>>
              IN  [status |-> "returned",
                   trace |-> [hovertemplate |-> new, showlegend |-> "True",
                              name |-> "trendline"]]
    ELSE [status |-> "returned",
          trace |-> [tr EXCEPT !.showlegend = "True", !.name = "trendline"]]

trend_graph(a) ==
    IF a.status = "raised" THEN a
    ELSE Graph([kind |-> "scatter", trendline |-> a.trace], FALSE)

generate_cumulative_sum(tr) == trend_graph(annotate_trendline(tr, "<i>%{x}</i>"))

generate_scatter_with_trendline(tr) ==
    trend_graph(annotate_trendline(tr, "<i>%{x} mm</i>"))

(***************************************************************************)
(* The inputs the calls are tried on.                                      *)
(***************************************************************************)
\* cell values of the fixtures: station A of the plain fixture has
\* n_rain = 5, n_dry = 3, days = 10 and station B n_rain = 10, n_dry = 0,
\* days = 10; the varied fixture lets days differ by row and by station
CellValue(varied, station, metric, r) ==
    LET p == StationRank(station)
        days == 10 + (IF varied THEN (r % 2) + (p - 1) ELSE 0)
    IN  CASE metric = "days" -> days
          [] metric = "n_rain" -> IF p % 2 = 1 THEN 5 ELSE days
          [] metric = "n_dry" -> IF p % 2 = 1 THEN 3 + (IF varied THEN r % 2 ELSE 0) ELSE 0
          [] metric = "max" -> p + r
          [] metric = "sum" -> 2 * p + 3 * r
          [] OTHER -> r

\* the metric columns a station carries, in column order
Layouts ==
    {<<"max", "sum">>, <<"sum", "max">>, <<"n_rain", "n_dry", "days">>,
     <<"days", "max", "n_rain", "n_dry">>,
     <<"days", "max", "sum", "n_rain", "n_dry">>}

\* <<columns of the first station, columns of every other station>>
LayoutPairs ==
    {<<l, l>> : l \in Layouts}
        \cup {<<<<"sum", "max">>, <<"max", "sum">>>>,
              <<<<"max">>, <<"max", "sum">>>>,
              <<<<"max", "sum">>, <<"n_rain", "n_dry", "days">>>>,
              <<<<"n_rain", "n_dry", "days">>, <<"max", "sum">>>>}

\* the first k stations of the pool, rotated by d
StationOrder(k, d) == [i \in 1..k |-> StationPool[((i - 1 + d) % k) + 1]]

MakeTable(order, sortedLevels, pair, n, varied) ==
    LET columns == Flatten([i \in 1..Len(order) |->
                      LET l == IF i = 1 THEN pair[1] ELSE pair[2]
                      IN  [j \in 1..Len(l) |-> <<order[i], l[j]>>]])
    IN  [columns |-> columns,
         levels0 |-> IF sortedLevels THEN StationOrder(Len(order), 0) ELSE order,
         index |-> [r \in 1..n |-> r],
         values |-> [c \in 1..Len(columns) |->
                       [r \in 1..n |-> CellValue(varied, columns[c][1], columns[c][2], r)]]]

SmallTables ==
    {MakeTable(StationOrder(k, d), sl, pair, n, varied) :
        k \in 1..MaxStations, d \in 0..(MaxStations - 1), sl \in BOOLEAN,
        pair \in LayoutPairs, n \in 1..MaxSmallRows, varied \in BOOLEAN}

\* tables at and over the x-axis threshold, under and over the cell threshold
LargeTables ==
    {MakeTable(StationOrder(k, 0), TRUE, <<l, l>>, n, TRUE) :
        k \in {1, MaxStations}, l \in Layouts,
        n \in THRESHOLD_XAXES..(THRESHOLD_XAXES + MaxOver)}

Tables == SmallTables \cup LargeTables

MaxSumUfuncs == {None, Some(<<"max">>), Some(<<"max", "sum", "days">>)}

RainDryUfuncs == {None, Some(<<"n_rain">>), Some(<<"n_rain", "n_dry", "days">>)}

RowsChoices == {None, Some(1), Some(MaxStations)}

PeriodChoices ==
    {None, Some(<<"Y", "e", "a", "r", "l", "y">>), Some(<<"m", "o", "n", "t", "h", "l", "y">>),
     Some(<<"d", "a", "i", "l", "y">>)}

\* the three period tables of the bubble builder; only their stations matter
BubbleTable(order) == MakeTable(order, TRUE, <<<<"max", "max_date">>, <<"max", "max_date">>>>, 1, FALSE)

BubbleInputs ==
    {<<BubbleTable(StationOrder(k, d1)), BubbleTable(StationOrder(k, d2)),
       BubbleTable(StationOrder(k, d3))>> :
        k \in 1..MaxStations, d1 \in 0..(MaxStations - 1),
        d2 \in 0..(MaxStations - 1), d3 \in 0..(MaxStations - 1)}

\* hover templates of the regression trace px.scatter hands over
TplAlphabet == {BR, "R", "=", "9", ".", "x", EXTRA}

ShortTemplates == UNION {[1..n -> TplAlphabet] : n \in 0..MaxTplLen}

EqForms == {<<"x">>, <<"x", "=", "9", "x">>}

R2Forms == {<<"9">>, <<"9", ".", "9">>, <<"x">>, <<"x", "9", ".", "9">>}

PxTemplates ==
    {<<"x", BR>> \o eq \o <<BR, "R", "x", "=">> \o r2 \o <<BR, BR, "x", EXTRA>> :
        eq \in EqForms, r2 \in R2Forms}

Templates == {SENTINEL} \cup ShortTemplates \cup PxTemplates

PxTrendline(tpl) == [hovertemplate |-> tpl, showlegend |-> "False", name |-> ""]

(***************************************************************************)
(* The state machine: a caller holds a summary table (or the three period  *)
(* tables, or a regression trace), calls a builder and embeds the result.  *)
(***************************************************************************)
Idle ==
    /\ call = None
    /\ before = None
    /\ result = None

InitSummary ==
    /\ \E t \in Tables : summary = Some(t)
    /\ summary_all = None
    /\ trendline = None
    /\ Idle

InitBubble ==
    /\ summary = None
    /\ \E ts \in BubbleInputs : summary_all = Some(ts)
    /\ trendline = None
    /\ Idle

InitTrend ==
    /\ summary = None
    /\ summary_all = None
    /\ \E tpl \in Templates : trendline = Some(PxTrendline(tpl))
    /\ Idle

Init == InitSummary \/ InitBubble \/ InitTrend

CallRecord(fn, uf, rw, p) == [fn |-> fn, ufunc_cols |-> uf, rows |-> rw, period |-> p]

CallMaxSum ==
    /\ ~IsNone(summary)
    /\ IsNone(result)
    /\ \E uf \in MaxSumUfuncs, rw \in RowsChoices, p \in PeriodChoices :
          LET r == generate_summary_maximum_sum(Get(summary), uf, rw, p)
          IN  /\ summary' = Some(r.summary)
              /\ result' = Some(r.out)
              /\ call' = Some(CallRecord("generate_summary_maximum_sum", uf, rw, p))
    /\ before' = summary
    /\ UNCHANGED <<summary_all, trendline>>

CallRainDry ==
    /\ ~IsNone(summary)
    /\ IsNone(result)
    /\ \E uf \in RainDryUfuncs, rw \in RowsChoices, p \in PeriodChoices :
          LET r == generate_summary_rain_dry(Get(summary), uf, rw, p)
          IN  /\ summary' = Some(r.summary)
              /\ result' = Some(r.out)
              /\ call' = Some(CallRecord("generate_summary_rain_dry", uf, rw, p))
    /\ before' = summary
    /\ UNCHANGED <<summary_all, trendline>>

\* the caller calls generate_summary_rain_dry once more, with the same
\* summary object and the same arguments, without rebuilding the table
CallRainDryAgain ==
    /\ ~IsNone(summary)
    /\ ~IsNone(call)
    /\ ~IsNone(result)
    /\ Get(call).fn = "generate_summary_rain_dry"
    /\ LET a == Get(call)
           r == generate_summary_rain_dry(Get(summary), a.ufunc_cols, a.rows, a.period)
       IN  /\ summary' = Some(r.summary)
           /\ result' = Some(r.out)
    /\ before' = summary
    /\ UNCHANGED <<call, summary_all, trendline>>

CallMaximumDate ==
    /\ ~IsNone(summary_all)
    /\ IsNone(result)
    /\ result' = Some(generate_summary_maximum_date(Get(summary_all)))
    /\ call' = Some(CallRecord("generate_summary_maximum_date", None, None, None))
    /\ before' = None
    /\ UNCHANGED <<summary, summary_all, trendline>>

CallCumulativeSum ==
    /\ ~IsNone(trendline)
    /\ IsNone(result)
    /\ result' = Some(generate_cumulative_sum(Get(trendline)))
    /\ call' = Some(CallRecord("generate_cumulative_sum", None, None, None))
    /\ before' = None
    /\ UNCHANGED <<summary, summary_all, trendline>>

CallScatterWithTrendline ==
    /\ ~IsNone(trendline)
    /\ IsNone(result)
    /\ result' = Some(generate_scatter_with_trendline(Get(trendline)))
    /\ call' = Some(CallRecord("generate_scatter_with_trendline", None, None, None))
    /\ before' = None
    /\ UNCHANGED <<summary, summary_all, trendline>>

\* the caller takes the returned graph (or handles the exception)
Embed ==
    /\ ~IsNone(result)
    /\ result' = None
    /\ call' = None
    /\ before' = None
    /\ UNCHANGED <<summary, summary_all, trendline>>

Next ==
    \/ CallMaxSum
    \/ CallRainDry
    \/ CallRainDryAgain
    \/ CallMaximumDate
    \/ CallCumulativeSum
    \/ CallScatterWithTrendline
    \/ Embed

Spec == Init /\ [][Next]_vars

(***************************************************************************)
(* Vocabulary of the properties.  They are stated on the caller's table    *)
(* as it was when the call was made (before), the arguments (call) and     *)
(* what the call handed back (result).                                     *)
(***************************************************************************)
Arg == Get(call)

Res == Get(result)

Before == Get(before)

Called(fn) == ~IsNone(call) /\ ~IsNone(result) /\ Arg.fn = fn

SummaryCall ==
    Called("generate_summary_maximum_sum") \/ Called("generate_summary_rain_dry")

StringPeriod == ~IsNone(Arg.period)

\* "yearly" in any letter case
AnyCaseYearly(s) ==
    /\ Len(s) = 6
    /\ \A i \in 1..6 :
          s[i] \in {<<"y", "e", "a", "r", "l", "y">>[i], <<"Y", "E", "A", "R", "L", "Y">>[i]}

OverThreshold(t) ==
    (Len(t.columns) * Len(t.index) > 1468) \/ (Len(t.index) > 120)

IsPlaceholder(res) ==
    /\ res.status = "returned"
    /\ res.figure.kind = "empty"
    /\ res.figure.data = <<[x |-> <<>>, y |-> <<>>]>>
    /\ res.figure.annotation = <<"<i>", "dataset above threshold", "</i>">>
    /\ res.staticPlot = TRUE

IsFullFigure(res) ==
    /\ res.status = "returned"
    /\ res.figure.kind = "subplots"
    /\ res.staticPlot = FALSE

StationSet(t) == {t.columns[c][1] : c \in 1..Len(t.columns)}

FirstColumn(t, s) ==
    CHOOSE c \in 1..Len(t.columns) :
        /\ t.columns[c][1] = s
        /\ \A d \in 1..(c - 1) : t.columns[d][1] # s

\* the stations in the order of their first column
FirstSeen(t) ==
    [i \in 1..Cardinality(StationSet(t)) |->
       CHOOSE s \in StationSet(t) :
           Cardinality({u \in StationSet(t) : FirstColumn(t, u) < FirstColumn(t, s)}) = i - 1]

Carries(t, s, m) == \E c \in 1..Len(t.columns) : t.columns[c] = <<s, m>>

Cell(t, s, m, r) ==
    t.values[CHOOSE c \in 1..Len(t.columns) : t.columns[c] = <<s, m>>][r]

\* the arguments with their defaults
ReqMetrics ==
    IF ~IsNone(Arg.ufunc_cols) THEN Get(Arg.ufunc_cols)
    ELSE IF Arg.fn = "generate_summary_maximum_sum" THEN <<"max", "sum">>
    ELSE <<"n_rain", "n_dry">>

ReqRows ==
    IF ~IsNone(Arg.rows) THEN Get(Arg.rows)
    ELSE IF Arg.fn = "generate_summary_maximum_sum" THEN 2
    ELSE Cardinality(StationSet(Before))

\* the input contract: the table carries what the builder reads, and the
\* grid has a row for every group of traces
InContract ==
    IF Arg.fn = "generate_summary_maximum_sum"
    THEN ReqRows >= Cardinality({m \in Range(ReqMetrics) :
                                    \E s \in StationSet(Before) : Carries(Before, s, m)})
    ELSE /\ \A s \in StationSet(Before) :
               \A m \in {"days", "n_rain", "n_dry"} : Carries(Before, s, m)
         /\ ReqRows >= Cardinality(StationSet(Before))

Traces == Res.figure.data

IsBorder(tr) == tr.name[1] = "<i>"

TraceMetric(tr) == tr.name[3]

(***************************************************************************)
(* C1: for a string period, both summary builders return the static        *)
(* placeholder (empty figure, message "dataset above threshold",           *)
(* staticPlot = true) exactly when (cell count > 1468 or index length >    *)
(* 120) and the period is not "yearly" in any letter case; in every other  *)
(* case no placeholder is returned, and the full figure is rendered        *)
(* whenever the input is within the builders' input contract.              *)
(***************************************************************************)
C1_GuardDecision ==
    (SummaryCall /\ StringPeriod) =>
        LET bail == OverThreshold(Before) /\ ~AnyCaseYearly(Get(Arg.period))
        IN  /\ bail <=> IsPlaceholder(Res)
            /\ ~bail => ~(Res.status = "returned" /\ Res.figure.kind = "empty")
            /\ (~bail /\ InContract) => IsFullFigure(Res)

\* over the cell threshold only, not yearly: the placeholder
C1_Witness ==
    /\ SummaryCall
    /\ StringPeriod
    /\ Len(Before.index) <= 120
    /\ Len(Before.columns) * Len(Before.index) > 1468
    /\ ~AnyCaseYearly(Get(Arg.period))
    /\ IsPlaceholder(Res)

(***************************************************************************)
(* C2: in a rendered stacked rain/dry figure every station has its filler  *)
(* trace, and at every time row n_rain + n_dry + filler equals the maximum *)
(* of that station's days column.                                          *)
(***************************************************************************)
C2_FillerSum ==
    (Called("generate_summary_rain_dry") /\ IsFullFigure(Res)) =>
        \A s \in StationSet(Before) :
            /\ \E i \in 1..Len(Traces) : IsBorder(Traces[i]) /\ Traces[i].legendgroup = s
            /\ \A i \in 1..Len(Traces) :
                  (IsBorder(Traces[i]) /\ Traces[i].legendgroup = s) =>
                      /\ Len(Traces[i].y) = Len(Before.index)
                      /\ \A r \in 1..Len(Before.index) :
                            Cell(Before, s, "n_rain", r) + Cell(Before, s, "n_dry", r)
                                + Traces[i].y[r]
                              = SeqMax([q \in 1..Len(Before.index) |->
                                           Cell(Before, s, "days", q)])

\* station A with n_rain = 5, n_dry = 3, days = 10 has filler 2 and station B
\* with n_rain = 10, n_dry = 0, days = 10 has filler 0
C2_Witness ==
    /\ Called("generate_summary_rain_dry")
    /\ IsFullFigure(Res)
    /\ StationSet(Before) = {"A", "B"}
    /\ Cell(Before, "A", "n_rain", 1) = 5 /\ Cell(Before, "A", "n_dry", 1) = 3
    /\ Cell(Before, "A", "days", 1) = 10
    /\ Cell(Before, "B", "n_rain", 1) = 10 /\ Cell(Before, "B", "n_dry", 1) = 0
    /\ Cell(Before, "B", "days", 1) = 10
    /\ \E i \in 1..Len(Traces) :
          IsBorder(Traces[i]) /\ Traces[i].legendgroup = "A" /\ Traces[i].y[1] = 2
    /\ \E i \in 1..Len(Traces) :
          IsBorder(Traces[i]) /\ Traces[i].legendgroup = "B" /\ Traces[i].y[1] = 0

(***************************************************************************)
(* C3: in every rendered summary figure tickvals and ticktext have the     *)
(* same length; with N <= 120 index entries tickvals is 0..N-1; with       *)
(* N > 120 it is 0, 2, 4, ... of length ceil(N/2); it is strictly          *)
(* increasing.                                                             *)
(***************************************************************************)
C3_TickPlan ==
    (SummaryCall /\ IsFullFigure(Res)) =>
        LET n == Len(Before.index)
            tv == Res.figure.tickvals
        IN  /\ Len(tv) = Len(Res.figure.ticktext)
            /\ n <= 120 => (Len(tv) = n /\ \A i \in 1..n : tv[i] = i - 1)
            /\ n > 120 => (/\ Len(tv) = (n + 1) \div 2
                           /\ \A i \in 1..Len(tv) : tv[i] = 2 * (i - 1))
            /\ \A i \in 1..(Len(tv) - 1) : tv[i] < tv[i + 1]

\* an odd index length over the threshold, rendered (yearly)
C3_Witness ==
    /\ SummaryCall
    /\ IsFullFigure(Res)
    /\ Len(Before.index) > 120
    /\ Len(Before.index) % 2 = 1
    /\ Len(Res.figure.tickvals) = (Len(Before.index) + 1) \div 2

(***************************************************************************)
(* C4: colour assignment of the grouped max/sum builder (2 traces per      *)
(* station) and of the bubble builder (3 traces per station).  With n      *)
(* stations that each have one trace in every one of the m rows, in the    *)
(* same station order, all n * m traces receive a colour; the trace at     *)
(* flattened position i gets theme colour (i mod n) mod len(theme); with   *)
(* n <= len(theme) the colours are the theme prefix repeated m times; all  *)
(* traces of one station carry the same colour.                            *)
(***************************************************************************)
ColoursAsClaimed(data, stations, m) ==
    LET n == Len(stations)
        L == Len(colorway)
    IN  /\ Len(data) = n * m
        /\ \A i \in 1..Len(data) :
              /\ data[i].marker_color # ""
              /\ data[i].marker_color = colorway[(((i - 1) % n) % L) + 1]
              /\ data[i].legendgroup = stations[((i - 1) % n) + 1]
        /\ n <= L =>
              data = zip_colors(data, Repeat(SubSeq(colorway, 1, n), m))
        /\ \A i, j \in 1..Len(data) :
              data[i].legendgroup = data[j].legendgroup
                  => data[i].marker_color = data[j].marker_color

\* the grouped builder is asked for two metrics and every station carries both
GroupedRegular ==
    /\ Called("generate_summary_maximum_sum")
    /\ IsFullFigure(Res)
    /\ Cardinality(Range(ReqMetrics)) = 2
    /\ \A s \in StationSet(Before) : \A m \in Range(ReqMetrics) : Carries(Before, s, m)

\* the three period tables list the same stations in the same order
BubbleRegular ==
    /\ Called("generate_summary_maximum_date")
    /\ Res.status = "returned"
    /\ Len(Get(summary_all)) = 3
    /\ \A k \in 1..3 : FirstSeen(Get(summary_all)[k]) = FirstSeen(Get(summary_all)[1])

C4_ColourAssignment ==
    /\ GroupedRegular => ColoursAsClaimed(Traces, FirstSeen(Before), 2)
    /\ BubbleRegular => ColoursAsClaimed(Traces, FirstSeen(Get(summary_all)[1]), 3)

\* more stations than theme colours in the grouped figure: the colours cycle
C4_Witness ==
    /\ GroupedRegular
    /\ Cardinality(StationSet(Before)) > NumThemeColors
    /\ Len(Traces) = 2 * Cardinality(StationSet(Before))
    /\ Traces[Len(Traces)].marker_color = Traces[1].marker_color

(***************************************************************************)
(* C5: in the grouped max/sum figure the traces of the k-th requested      *)
(* metric are in subplot row k (whose default title is that metric),       *)
(* whatever the order of the metric columns inside the stations.           *)
(***************************************************************************)
C5_RowsFollowRequestOrder ==
    (Called("generate_summary_maximum_sum") /\ IsFullFigure(Res)) =>
        \A i \in 1..Len(Traces) :
            /\ Traces[i].row <= Len(Res.figure.subplot_titles)
            /\ Res.figure.subplot_titles[Traces[i].row] = TraceMetric(Traces[i])

C7_NonePeriodIsDaily ==
    (SummaryCall /\ ~StringPeriod /\ InContract) =>
        /\ Res.status = "returned"
        /\ OverThreshold(Before) <=> IsPlaceholder(Res)
        /\ ~OverThreshold(Before) =>
              /\ IsFullFigure(Res)
              /\ \A i \in 1..Len(Res.figure.ticktext) :
                    Res.figure.ticktext[i].fmt = "%d %b %Y"

(***************************************************************************)
(* C8: in every rendered stacked rain/dry figure, whatever ufunc_cols and  *)
(* rows, every filler ("(border)") trace is coloured DarkGray and no       *)
(* trace of a real metric is.                                              *)
(***************************************************************************)
C8_DarkGrayIsFiller ==
    (Called("generate_summary_rain_dry") /\ IsFullFigure(Res)) =>
        \A i \in 1..Len(Traces) :
            IsBorder(Traces[i]) <=> Traces[i].marker_color = "DarkGray"

(***************************************************************************)
(* C9: both trendline builders return a figure whose regression trace has  *)
(* showlegend = true and name = "trendline", and its hover template is     *)
(* rewritten if and only if the original differs from "<extra></extra>".   *)
(***************************************************************************)
C9_TrendlineAnnotation ==
    (Called("generate_cumulative_sum") \/ Called("generate_scatter_with_trendline")) =>
        /\ Res.status = "returned"
        /\ Res.figure.trendline.showlegend = "True"
        /\ Res.figure.trendline.name = "trendline"
        /\ (Res.figure.trendline.hovertemplate # Get(trendline).hovertemplate)
              <=> (Get(trendline).hovertemplate # <<"<extra></extra>">>)

(***************************************************************************)
(* C10: after a call of either summary builder has returned (the figure or *)
(* the placeholder) the caller's summary table is what it was before the   *)
(* call: same columns in the same order, same values.                      *)
(***************************************************************************)
C10_SummaryUnchanged ==
    (SummaryCall /\ Res.status = "returned") => summary = before

(***************************************************************************)
(* C11: in a rendered stacked rain/dry figure of a summary with two or     *)
(* more stations, at every time row the stack height n_rain + n_dry +      *)
(* filler is the same value for all stations, and that value is the upper  *)
(* bound of the y-axis range [0, max(days)] applied to the subplot rows.   *)
(***************************************************************************)
C11_CommonCeiling ==
    (/\ Called("generate_summary_rain_dry")
     /\ IsFullFigure(Res)
     /\ Cardinality(StationSet(Before)) >= 2) =>
        /\ ~IsNone(Res.figure.yrange)
        /\ Get(Res.figure.yrange)[1] = 0
        /\ \A s \in StationSet(Before) :
              \A i \in 1..Len(Traces) :
                  (IsBorder(Traces[i]) /\ Traces[i].legendgroup = s) =>
                      \A r \in 1..Len(Before.index) :
                          Cell(Before, s, "n_rain", r) + Cell(Before, s, "n_dry", r)
                              + Traces[i].y[r]
                            = Get(Res.figure.yrange)[2]

(***************************************************************************)
(* C12: when generate_summary_rain_dry is called again with the same       *)
(* summary object and the same string period, the guard decides as it did  *)
(* on the call before: the placeholder is returned by both calls or by     *)
(* neither.                                                                *)
(***************************************************************************)
C12_RepeatCallSameDecision ==
    [][(/\ Called("generate_summary_rain_dry")
        /\ StringPeriod
        /\ Called("generate_summary_rain_dry")'
        /\ Arg'.period = Arg.period
        /\ before' = summary)
          => (IsPlaceholder(Res') <=> IsPlaceholder(Res))]_vars

(***************************************************************************)
(* C13: in a rendered stacked rain/dry figure with default rows and        *)
(* subplot titles, whatever the order of the station columns, the title of *)
(* subplot row i is the station whose traces are in row i: titles and row  *)
(* assignment both follow the first-seen order of the stations.            *)
(***************************************************************************)
C13_TitlesMatchRows ==
    (/\ Called("generate_summary_rain_dry")
     /\ IsFullFigure(Res)
     /\ IsNone(Arg.rows)) =>
        /\ Res.figure.subplot_titles = FirstSeen(Before)
        /\ \A i \in 1..Len(Traces) :
              /\ Traces[i].row \in 1..Len(Res.figure.subplot_titles)
              /\ Res.figure.subplot_titles[Traces[i].row] = Traces[i].legendgroup

====
